---- MODULE Spec2Model ----
(***************************************************************************)
(* Library lending platform: the loan workflow between the Loan service   *)
(* (services/loan_service/app.py) and the Catalog service                  *)
(* (services/catalog_service/app.py), the events the Loan service          *)
(* publishes (services/shared/messaging.py), and the two consumers of      *)
(* those events, the Analytics service (services/analytics_service/app.py) *)
(* and the Notification service (services/notification_service/app.py).    *)
(*                                                                         *)
(* The Loan service handlers are coroutines on one event loop: the code    *)
(* between two awaits runs as one step.  The Catalog service handlers are  *)
(* plain functions, which the framework runs on a thread pool: the read of *)
(* the book row (session.get) and the write of the new value               *)
(* (session.commit) are two steps, and other requests run between them.    *)
(* Each consumer takes the messages of its queue one at a time, and       *)
(* subscribes again after a sleep when consume_events has raised.          *)
(*                                                                         *)
(* Spec is the loan workflow, CatalogSpec the catalog with direct clients  *)
(* of reserve and release, EditSpec the catalog with the book update too,  *)
(* BusSpec the bus with its publisher and the two consumers (BusFairSpec   *)
(* with consumers that keep running, RetrySpec the same with the events of *)
(* one loan), AnalyticsSpec and NotificationSpec each consumer with the    *)
(* clients of its read endpoints, and SweepSpec the monolith's overdue     *)
(* sweep (core/tasks.py) over its own Loan table.                          *)
(***************************************************************************)
EXTENDS Integers, Sequences, FiniteSets, TLC

(* ------------------------------ bounds -------------------------------- *)

NumUsers == 2
NumBooks == 1
\* requests to the Loan service in one behaviour
MaxReqs == 3
MaxCopies == 2
MaxTime == 1
\* requests of catalog clients in one behaviour, and the largest |count|
MaxCatReqs == 2
MaxCount == 2
\* events published on the bus in one behaviour, and the deliveries of one
\* message to one consumer
MaxEvents == 2
MaxDeliveries == 2
\* the reads of the analytics and notification endpoints
MaxReads == 2
MaxLists == 1
\* the monolith's loans and the runs of its overdue sweep
MaxLoans == 2
MaxSweeps == 2

(* -------------------------- program constants -------------------------- *)

LOAN_PERIOD_DAYS == 14

Users == 1..NumUsers
BookIds == 1..NumBooks
\* a book id no row of the catalog has
AbsentBook == 0
\* the loan ids a return request may name: when it arrives fewer than MaxReqs
\* loans exist, so one id at least names no loan
LoanIds == 1..MaxReqs
\* InventoryRequest.count is any integer
Counts == (0 - MaxCount)..MaxCount
\* returned_date of a loan that was not returned (None)
NoDate == 0 - 1

Min2(a, b) == IF a <= b THEN a ELSE b

VARIABLES
    books,      \* catalog: book id -> [total_copies, available_copies]
    books0,     \* the catalog as it was at the start (history)
    loans,      \* loan service: the Loan table, loans[i].id = i
    events,     \* the events published to the exchange, in order
    req,        \* the requests: req[r] is the r-th request's state
    now,        \* the clock datetime.utcnow() reads
    queue,      \* broker: queue name -> the messages ready, for the queues bound
    delivery,   \* consumer of a queue: the message it holds and its stage
    metrics,    \* analytics service: the AggregateMetric and UserMetric rows
    notifications,  \* notification service: the Notification table
    handled,    \* queue name -> the messages whose handler completed (history)
    Loan_objects,   \* monolith: the Loan table of core/models.py, id = index
    celery,     \* the tasks send_overdue_notification_email.delay has queued
    sweep,      \* check_overdue_loans_and_send_notifications: its run
    outbox      \* the loans whose overdue mail was sent, in order

vars == <<books, books0, loans, events, req, now,
          queue, delivery, metrics, notifications, handled,
          Loan_objects, celery, sweep, outbox>>

\* the monolith's Loan table and its overdue tasks
monolith == <<Loan_objects, celery, sweep, outbox>>

\* the sweep is not running; its fields are those of its last run
IdleSweep == [pc |-> "idle", runs |-> 0, now |-> 0, selected |-> {},
              rest |-> <<>>, sent |-> <<>>]

\* the monolith has no loan and has run no sweep
NoSweep ==
    /\ Loan_objects = <<>>
    /\ celery = <<>>
    /\ sweep = IdleSweep
    /\ outbox = <<>>

\* the broker's queues and the two consumer services
consumers == <<queue, delivery, metrics, notifications, handled>>

\* create_db of the analytics service: the tables have no row
NoMetrics == [aggregate |-> <<>>, users |-> <<>>]

\* no consumer has declared and bound its queue (consume_events has not run):
\* the exchange keeps no copy of what is published
Unbound ==
    /\ queue = <<>>
    /\ delivery = <<>>
    /\ metrics = NoMetrics
    /\ notifications = <<>>
    /\ handled = <<>>

(* ------------------------------ requests ------------------------------- *)

IdleReq ==
    [kind |-> "none", pc |-> "idle", user_id |-> 0, book_id |-> 0, loan_id |-> 0,
     count |-> 0, snap |-> 0, local |-> 0, total |-> 0, seen_total |-> 0,
     code |-> 0, detail |-> "",
     n_reserve |-> 0, n_release |-> 0, n_events |-> 0, wrote |-> FALSE,
     result |-> <<>>]

\* kind, pc: the handler and the place it has reached; code, detail: the
\* answer (code 0: none yet); snap: the snapshot fetch_book returned;
\* local: the value the catalog handler computed from the row it read;
\* total, seen_total: the total_copies an update carries and the one its
\* handler read (snap is then the available_copies it read);
\* n_reserve, n_release, n_events: the reserve calls, release calls and events
\* the request has sent; wrote (history): the catalog has written the book's
\* row for this request; result: the rows a read endpoint answered with

\* requests arrive in the order of their slots
MayStart(r) ==
    /\ req[r].kind = "none"
    /\ \A q \in DOMAIN req : q < r => req[q].kind # "none"

\* raise HTTPException(status_code, detail): the request ends
Raise(r, status_code, detail) ==
    [req[r] EXCEPT !.pc = "done", !.code = status_code, !.detail = detail]


(* ------------------------- the Catalog service ------------------------- *)

BookRows ==
    {[total_copies |-> t, available_copies |-> a] :
        t \in 1..MaxCopies, a \in 0..MaxCopies}

\* reserve_book, line 136: the request is refused
reserve_refused(available_copies, count) == available_copies < count

\* reserve_book, line 138: book.available_copies -= payload.count
reserve_value(available_copies, count) == available_copies - count

\* release_book, line 150: the request is refused
release_refused(available_copies, total_copies, count) ==
    available_copies + count > total_copies

\* faulty variant: the release forgets to add the count
release_value_mut(available_copies, count) == available_copies

\* release_book, line 152: book.available_copies += payload.count
release_value(available_copies, count) == available_copies + count

\* session.commit() of a handler that read the row and set available_copies to
\* value: the UPDATE carries the value computed from the row as it was read;
\* an attribute set to the value it had is not written
commit_book(book_id, value, count) ==
    IF count = 0 \/ book_id \notin DOMAIN books
    THEN books
    ELSE [books EXCEPT ![book_id].available_copies = value]

\* the catalog's answer has arrived: a client of the catalog is done, the
\* loan workflow goes on
Answered(r, stage) ==
    IF req[r].kind \in {"reserve", "release"}
    THEN [req[r] EXCEPT !.pc = "done", !.code = 200, !.detail = stage,
                        !.wrote = req[r].count # 0]
    ELSE [req[r] EXCEPT !.pc = stage, !.wrote = req[r].count # 0]

\* reserve_book, lines 133-138: session.get and the checks, on the pool thread
reserve_book_read(r) ==
    /\ req[r].pc = "reserve_sent"
    /\ LET b == req[r].book_id
           c == req[r].count
       IN  req' = [req EXCEPT ![r] =
                IF b \notin DOMAIN books
                THEN Raise(r, 404, "Book not found")
                ELSE IF reserve_refused(books[b].available_copies, c)
                THEN Raise(r, 400, "Not enough copies available")
                ELSE [req[r] EXCEPT !.pc = "reserve_read",
                        !.local = reserve_value(books[b].available_copies, c)]]
    /\ UNCHANGED <<monolith, consumers, books, books0, loans, events, now>>

\* reserve_book, lines 139-142: session.commit writes the value
reserve_book_commit(r) ==
    /\ req[r].pc = "reserve_read"
    /\ books' = commit_book(req[r].book_id, req[r].local, req[r].count)
    /\ req' = [req EXCEPT ![r] = Answered(r, "reserve_done")]
    /\ UNCHANGED <<monolith, consumers, books0, loans, events, now>>

\* release_book, lines 147-152
release_book_read(r) ==
    /\ req[r].pc = "release_sent"
    /\ LET b == req[r].book_id
           c == req[r].count
       IN  req' = [req EXCEPT ![r] =
                IF b \notin DOMAIN books
                THEN Raise(r, 404, "Book not found")
                ELSE IF release_refused(books[b].available_copies,
                                        books[b].total_copies, c)
                THEN Raise(r, 400, "Cannot exceed total copies")
                ELSE [req[r] EXCEPT !.pc = "release_read",
                        !.local = release_value(books[b].available_copies, c)]]
    /\ UNCHANGED <<monolith, consumers, books, books0, loans, events, now>>

\* release_book, lines 153-156
release_book_commit(r) ==
    /\ req[r].pc = "release_read"
    /\ books' = commit_book(req[r].book_id, req[r].local, req[r].count)
    /\ req' = [req EXCEPT ![r] = Answered(r, "release_done")]
    /\ UNCHANGED <<monolith, consumers, books0, loans, events, now>>

\* a client of the catalog posts /books/{book_id}/reserve or /release
\* with any count InventoryRequest accepts
catalog_post(r, action, book_id, count) ==
    /\ MayStart(r)
    /\ req' = [req EXCEPT ![r] =
            [IdleReq EXCEPT !.kind = action,
                !.pc = IF action = "reserve" THEN "reserve_sent" ELSE "release_sent",
                !.book_id = book_id, !.count = count]]
    /\ UNCHANGED <<monolith, consumers, books, books0, loans, events, now>>

\* BookPayload.available_copies that is None (line 29)
NoValue == 0 - MaxCopies - 1

\* the values of BookPayload.available_copies: None or any integer
Availables == {NoValue} \cup ((0 - 1)..MaxCopies)

\* update_book, line 104
payload_available(total_copies, available_copies) ==
    IF available_copies = NoValue THEN total_copies ELSE available_copies

\* update_book, lines 101-111: session.get, the checks, and the attributes of
\* the row object are set from the payload
update_book_read(r, kind, book_id, total_copies, available_copies) ==
    /\ MayStart(r)
    /\ LET started == [IdleReq EXCEPT !.kind = kind, !.book_id = book_id,
                                      !.total = total_copies]
           available == payload_available(total_copies, available_copies)
       IN  req' = [req EXCEPT ![r] =
                IF book_id \notin DOMAIN books
                THEN [started EXCEPT !.pc = "done", !.code = 404,
                                     !.detail = "Book not found"]
                ELSE IF available > total_copies
                THEN [started EXCEPT !.pc = "done", !.code = 400,
                        !.detail = "Available copies cannot exceed total copies"]
                ELSE [started EXCEPT !.pc = "update_read",
                        !.seen_total = books[book_id].total_copies,
                        !.snap = books[book_id].available_copies,
                        !.local = available]]
    /\ UNCHANGED <<monolith, consumers, books, books0, loans, events, now>>

\* update_book, lines 113-118: session.commit writes the attributes whose
\* value differs from the one that was read
update_book_commit(r) ==
    /\ req[r].pc = "update_read"
    /\ books' = [books EXCEPT ![req[r].book_id] =
            [total_copies |-> IF req[r].total # req[r].seen_total
                              THEN req[r].total ELSE @.total_copies,
             available_copies |-> IF req[r].local # req[r].snap
                                  THEN req[r].local ELSE @.available_copies]]
    /\ req' = [req EXCEPT ![r] =
            [req[r] EXCEPT !.pc = "done", !.code = 200,
                           !.wrote = (req[r].total # req[r].seen_total
                                      \/ req[r].local # req[r].snap)]]
    /\ UNCHANGED <<monolith, consumers, books0, loans, events, now>>

\* BookForm.clean (core/forms.py): the values the edit form lets through
BookForm_clean(total_copies, available_copies) ==
    /\ total_copies >= 1
    /\ available_copies >= 0
    /\ available_copies <= total_copies

\* BookUpdateView.form_valid: the monolith puts the form's data, its
\* available_copies too, to the catalog
BookUpdateView_form_valid(r, pk, total_copies, available_copies) ==
    /\ BookForm_clean(total_copies, available_copies)
    /\ update_book_read(r, "edit", pk, total_copies, available_copies)

CatalogInit ==
    /\ books \in [BookIds -> {b \in BookRows : b.available_copies <= b.total_copies}]
    /\ books0 = books
    /\ loans = <<>>
    /\ events = <<>>
    /\ req = [r \in 1..MaxCatReqs |-> IdleReq]
    /\ now = 0
    /\ Unbound
    /\ NoSweep

CatalogNext ==
    \/ \E r \in DOMAIN req, a \in {"reserve", "release"},
          b \in BookIds \cup {AbsentBook}, c \in Counts : catalog_post(r, a, b, c)
    \/ \E r \in DOMAIN req : reserve_book_read(r)
    \/ \E r \in DOMAIN req : reserve_book_commit(r)
    \/ \E r \in DOMAIN req : release_book_read(r)
    \/ \E r \in DOMAIN req : release_book_commit(r)

CatalogSpec == CatalogInit /\ [][CatalogNext]_vars

\* the catalog with its reserve and release clients, clients of PUT
\* /books/{book_id} and the monolith's edit form
EditNext ==
    \/ CatalogNext
    \/ \E r \in DOMAIN req, b \in BookIds, t \in 1..MaxCopies, a \in 0..MaxCopies :
            BookUpdateView_form_valid(r, b, t, a)
    \/ \E r \in DOMAIN req, b \in BookIds \cup {AbsentBook},
          t \in 1..MaxCopies, a \in Availables :
            update_book_read(r, "update", b, t, a)
    \/ \E r \in DOMAIN req : update_book_commit(r)

EditSpec == CatalogInit /\ [][EditNext]_vars


(* --------------------------- the Loan service -------------------------- *)

\* datetime.utcnow(): the clock never runs backwards
ClockReads == now..Min2(now + 1, MaxTime)

\* faulty variant: the query for an active loan of the pair finds nothing
existing_mut(user_id, book_id) == {}

\* create_loan, lines 144-148: the active loans of the pair
existing(user_id, book_id) ==
    {i \in 1..Len(loans) :
        /\ loans[i].user_id = user_id
        /\ loans[i].book_id = book_id
        /\ loans[i].status = "active"}

\* faulty variant: the check lets a snapshot of 0 copies pass
no_copies_mut(available_copies) == available_copies < 0

\* create_loan, line 141: the snapshot shows no copy
no_copies(available_copies) == available_copies <= 0

\* create_loan, lines 154-160: Loan(...); read_due is the clock read of line 159
\* and read_loan the later one of the loan_date default (line 30)
new_loan(user_id, book_id, read_due, read_loan) ==
    [id |-> Len(loans) + 1, user_id |-> user_id, book_id |-> book_id,
     loan_date |-> read_loan, due_date |-> read_due + LOAN_PERIOD_DAYS,
     returned_date |-> NoDate, status |-> "active"]

\* return_loan, line 183: session.get found no row
loan_missing(loan_id) == loan_id \notin 1..Len(loans)

\* faulty variant: the owner check is missing
forbidden_mut(loan, user_id) == FALSE

\* return_loan, line 185
forbidden(loan, user_id) == loan.user_id # user_id

\* faulty variant: the check of a loan returned already is missing
already_returned_mut(loan) == FALSE

\* return_loan, line 187
already_returned(loan) == loan.status = "returned"

\* faulty variant: the return writes a status the lifecycle does not have
returned_loan_mut(loan, read) ==
    [loan EXCEPT !.status = "closed", !.returned_date = read]

\* faulty variant: the return does not write returned_date
returned_loan_undated(loan, read) == [loan EXCEPT !.status = "returned"]

\* faulty variant: the loan is not saved as returned before the release call
returned_loan_unsaved(loan, read) == loan

\* return_loan, lines 190-191
returned_loan(loan, read) ==
    [loan EXCEPT !.status = "returned", !.returned_date = read]

\* faulty variant: nothing reaches the exchange
published_mut(event_type, loan) == events

\* publish_event, lines 11-28: the message is on the exchange
published(event_type, loan) ==
    Append(events, [type |-> event_type, loan_id |-> loan.id,
                    user_id |-> loan.user_id, book_id |-> loan.book_id])

\* the message the broker keeps for the seq-th event published; deliveries
\* counts how often it was handed to the consumer
message(seq, event) == [seq |-> seq, event |-> event, deliveries |-> 0]

\* exchange.publish, line 28: the topic exchange puts a copy of every new
\* event of all into each queue bound with loan.* (both event types of the
\* loan service have a routing key of that pattern)
routed(all) ==
    [q \in DOMAIN queue |->
        queue[q] \o [k \in 1..(Len(all) - Len(events)) |->
                        message(Len(events) + k, all[Len(events) + k])]]

\* create_loan, line 140, with fetch_book (lines 99-108) and the catalog's
\* read_book: the snapshot of the book, or 404
create_loan_fetch(r, user_id, book_id) ==
    /\ MayStart(r)
    /\ LET started == [IdleReq EXCEPT !.kind = "create", !.user_id = user_id,
                                      !.book_id = book_id]
       IN  req' = [req EXCEPT ![r] =
                IF book_id \notin DOMAIN books
                THEN [started EXCEPT !.pc = "done", !.code = 404,
                                     !.detail = "Book not found"]
                ELSE [started EXCEPT !.pc = "check",
                                     !.snap = books[book_id].available_copies]]
    /\ UNCHANGED <<monolith, consumers, books, books0, loans, events, now>>

\* fetch_book, lines 103-104: the catalog cannot be reached
create_loan_fetch_unavailable(r, user_id, book_id) ==
    /\ MayStart(r)
    /\ req' = [req EXCEPT ![r] =
            [IdleReq EXCEPT !.kind = "create", !.user_id = user_id,
                !.book_id = book_id, !.pc = "done", !.code = 503,
                !.detail = "Catalog service unavailable"]]
    /\ UNCHANGED <<monolith, consumers, books, books0, loans, events, now>>

\* create_loan, lines 141-152: the two checks, then the reserve call is sent
create_loan_check(r) ==
    /\ req[r].kind = "create"
    /\ req[r].pc = "check"
    /\ req' = [req EXCEPT ![r] =
            IF no_copies(req[r].snap)
            THEN Raise(r, 400, "No available copies")
            ELSE IF existing(req[r].user_id, req[r].book_id) # {}
            THEN Raise(r, 400, "Active loan already exists for this user and book")
            ELSE [req[r] EXCEPT !.pc = "reserve_sent", !.count = 1,
                                !.n_reserve = @ + 1]]
    /\ UNCHANGED <<monolith, consumers, books, books0, loans, events, now>>

\* faulty variant: the failure of the call is ignored and the handler goes on
adjust_inventory_unsent_mut(r) ==
    /\ req[r].kind \in {"create", "return"}
    /\ req[r].pc \in {"reserve_sent", "release_sent"}
    /\ req' = [req EXCEPT ![r] =
            [req[r] EXCEPT !.pc = IF req[r].pc = "reserve_sent"
                                  THEN "reserve_done" ELSE "release_done"]]
    /\ UNCHANGED <<monolith, consumers, books, books0, loans, events, now>>

\* adjust_inventory, lines 116-117: the call fails before the catalog saw it
adjust_inventory_unsent(r) ==
    /\ req[r].kind \in {"create", "return"}
    /\ req[r].pc \in {"reserve_sent", "release_sent"}
    /\ req' = [req EXCEPT ![r] = Raise(r, 503, "Catalog service unavailable")]
    /\ UNCHANGED <<monolith, consumers, books, books0, loans, events, now>>

\* adjust_inventory, lines 116-117: the catalog did the update and its answer
\* is lost or late (timeout=10.0, line 77)
adjust_inventory_unanswered(r) ==
    /\ req[r].kind \in {"create", "return"}
    /\ req[r].pc \in {"reserve_done", "release_done"}
    /\ req' = [req EXCEPT ![r] = Raise(r, 503, "Catalog service unavailable")]
    /\ UNCHANGED <<monolith, consumers, books, books0, loans, events, now>>

\* create_loan, lines 154-163: the Loan row is inserted
create_loan_persist(r) ==
    /\ req[r].kind = "create"
    /\ req[r].pc = "reserve_done"
    /\ \E read_due \in ClockReads :
         \E read_loan \in read_due..Min2(read_due + 1, MaxTime) :
            /\ loans' = Append(loans,
                    new_loan(req[r].user_id, req[r].book_id, read_due, read_loan))
            /\ now' = read_loan
    /\ req' = [req EXCEPT ![r] =
            [req[r] EXCEPT !.pc = "publish", !.loan_id = Len(loans) + 1]]
    /\ UNCHANGED <<monolith, consumers, books, books0, events>>

\* create_loan, line 162: session.commit raises, nothing is inserted
create_loan_persist_fail(r) ==
    /\ req[r].kind = "create"
    /\ req[r].pc = "reserve_done"
    /\ req' = [req EXCEPT ![r] = Raise(r, 500, "Internal Server Error")]
    /\ UNCHANGED <<monolith, consumers, books, books0, loans, events, now>>

\* create_loan, lines 165-177: loan.created is published, 201
create_loan_publish(r) ==
    /\ req[r].kind = "create"
    /\ req[r].pc = "publish"
    /\ events' = published("loan.created", loans[req[r].loan_id])
    /\ queue' = routed(events')
    /\ req' = [req EXCEPT ![r] =
            [req[r] EXCEPT !.pc = "done", !.code = 201, !.n_events = @ + 1]]
    /\ UNCHANGED <<monolith, delivery, metrics, notifications, handled,
                 books, books0, loans, now>>

\* publish_event, line 18 or 28: the broker cannot be reached
create_loan_publish_fail(r) ==
    /\ req[r].kind = "create"
    /\ req[r].pc = "publish"
    /\ req' = [req EXCEPT ![r] = Raise(r, 500, "Internal Server Error")]
    /\ UNCHANGED <<monolith, consumers, books, books0, loans, events, now>>

\* return_loan, lines 182-196: the checks, the loan is persisted as returned,
\* then the release call is sent
return_loan_begin(r, loan_id, user_id) ==
    /\ MayStart(r)
    /\ LET started == [IdleReq EXCEPT !.kind = "return", !.user_id = user_id,
                                      !.loan_id = loan_id, !.pc = "done"]
       IN  IF loan_missing(loan_id)
           THEN /\ req' = [req EXCEPT ![r] =
                        [started EXCEPT !.code = 404, !.detail = "Loan not found"]]
                /\ UNCHANGED <<loans, now>>
           ELSE IF forbidden(loans[loan_id], user_id)
           THEN /\ req' = [req EXCEPT ![r] =
                        [started EXCEPT !.code = 403, !.detail = "Forbidden",
                                        !.book_id = loans[loan_id].book_id]]
                /\ UNCHANGED <<loans, now>>
           ELSE IF already_returned(loans[loan_id])
           THEN /\ req' = [req EXCEPT ![r] =
                        [started EXCEPT !.code = 400,
                                        !.detail = "Loan already returned",
                                        !.book_id = loans[loan_id].book_id]]
                /\ UNCHANGED <<loans, now>>
           ELSE \E read \in ClockReads :
                /\ loans' = [loans EXCEPT ![loan_id] = returned_loan(@, read)]
                /\ now' = read
                /\ req' = [req EXCEPT ![r] =
                        [started EXCEPT !.pc = "release_sent", !.count = 1,
                                        !.book_id = loans[loan_id].book_id,
                                        !.n_release = @ + 1]]
    /\ UNCHANGED <<monolith, consumers, books, books0, events>>

\* return_loan, lines 197-209: loan.returned is published, 200
return_loan_publish(r) ==
    /\ req[r].kind = "return"
    /\ req[r].pc = "release_done"
    /\ events' = published("loan.returned", loans[req[r].loan_id])
    /\ queue' = routed(events')
    /\ req' = [req EXCEPT ![r] =
            [req[r] EXCEPT !.pc = "done", !.code = 200, !.n_events = @ + 1]]
    /\ UNCHANGED <<monolith, delivery, metrics, notifications, handled,
                 books, books0, loans, now>>

return_loan_publish_fail(r) ==
    /\ req[r].kind = "return"
    /\ req[r].pc = "release_done"
    /\ req' = [req EXCEPT ![r] = Raise(r, 500, "Internal Server Error")]
    /\ UNCHANGED <<monolith, consumers, books, books0, loans, events, now>>

(* -------------------- the event bus and its consumers ------------------ *)

\* queue_name of the two calls of consume_events
AnalyticsQueue == "analytics-queue"
NotificationQueue == "notification-queue"
Queues == {AnalyticsQueue, NotificationQueue}

\* the event types the loan service publishes
EventTypes == {"loan.created", "loan.returned"}

NoEvent == [type |-> "", loan_id |-> 0, user_id |-> 0, book_id |-> 0]
NoMessage == message(0, NoEvent)

\* the consumer waits for the next message of the queue iterator
Waiting == [msg |-> NoMessage, stage |-> "waiting"]

\* consume_events has raised: start_consumer is in its except branch, in
\* asyncio.sleep(5), and holds no message
Sleeping == [msg |-> NoMessage, stage |-> "sleeping"]

\* publish_event, lines 11-28, called by a publisher with any loan event: the
\* body carries the type and the keys of the payload
publish_event(event_type, payload) ==
    /\ Len(events) < MaxEvents
    /\ events' = Append(events, [k \in {"type"} \cup DOMAIN payload |->
                                    IF k = "type" THEN event_type ELSE payload[k]])
    /\ queue' = routed(events')
    /\ UNCHANGED <<monolith, delivery, metrics, notifications, handled,
                   books, books0, loans, req, now>>

\* faulty variant: the loop takes the next message whatever it is doing
consume_events_eager(q) ==
    /\ delivery[q].stage # "sleeping"
    /\ queue[q] # <<>>
    /\ delivery' = [delivery EXCEPT ![q] =
            [msg |-> [Head(queue[q]) EXCEPT !.deliveries = @ + 1],
             stage |-> "handling"]]
    /\ queue' = [queue EXCEPT ![q] = Tail(@)]
    /\ UNCHANGED <<monolith, metrics, notifications, handled,
                   books, books0, loans, events, req, now>>

\* consume_events, lines 51-53: the iterator hands the next message of the
\* queue to the loop, one at a time; the broker keeps it as unacknowledged
consume_events_next(q) ==
    /\ delivery[q].stage = "waiting"
    /\ queue[q] # <<>>
    /\ delivery' = [delivery EXCEPT ![q] =
            [msg |-> [Head(queue[q]) EXCEPT !.deliveries = @ + 1],
             stage |-> "handling"]]
    /\ queue' = [queue EXCEPT ![q] = Tail(@)]
    /\ UNCHANGED <<monolith, metrics, notifications, handled,
                   books, books0, loans, events, req, now>>

\* consume_events, line 53: message.process() leaves without an exception and
\* acknowledges; the broker forgets the message
message_ack(q) ==
    /\ delivery[q].stage = "handled"
    /\ delivery' = [delivery EXCEPT ![q] = Waiting]
    /\ UNCHANGED <<monolith, queue, metrics, notifications, handled,
                   books, books0, loans, events, req, now>>

\* consume_events, lines 53-55: the handler (or json.loads) raises inside
\* message.process(), whose default is requeue=False: the message is rejected
\* without requeue and the broker drops it; the exception ends consume_events
\* and start_consumer catches it
handler_raises(q) ==
    /\ delivery[q].stage = "handling"
    /\ delivery' = [delivery EXCEPT ![q] = Sleeping]
    /\ UNCHANGED <<monolith, queue, metrics, notifications, handled,
                   books, books0, loans, events, req, now>>

\* the connection to the broker breaks while the consumer holds a message:
\* neither the acknowledgement nor a rejection reaches the broker, which puts
\* the message back at the head of the queue.  The connection is one of
\* connect_robust (line 42): either it restores the subscription itself and
\* the iterator goes on, or the iterator raises and start_consumer catches it
connection_lost(q) ==
    /\ delivery[q].stage \in {"handling", "handled"}
    /\ delivery[q].msg.deliveries < MaxDeliveries
    /\ queue' = [queue EXCEPT ![q] = <<delivery[q].msg>> \o @]
    /\ \E after \in {Waiting, Sleeping} :
            delivery' = [delivery EXCEPT ![q] = after]
    /\ UNCHANGED <<monolith, metrics, notifications, handled,
                   books, books0, loans, events, req, now>>

\* faulty variant: the consumer's task ends at the first exception
start_consumer_stops(q) ==
    /\ delivery[q].stage = "sleeping"
    /\ delivery' = [delivery EXCEPT ![q].stage = "stopped"]
    /\ UNCHANGED <<monolith, queue, metrics, notifications, handled,
                   books, books0, loans, events, req, now>>

\* start_consumer of either service (notification lines 69-80, analytics
\* lines 91-101): after asyncio.sleep(5) the loop calls consume_events again,
\* which connects, declares and binds the queue and waits on its iterator.
\* A call that raises before it has subscribed comes back to the same sleep
\* and changes nothing
start_consumer(q) ==
    /\ delivery[q].stage = "sleeping"
    /\ delivery' = [delivery EXCEPT ![q] = Waiting]
    /\ UNCHANGED <<monolith, queue, metrics, notifications, handled,
                   books, books0, loans, events, req, now>>

\* the handler of the queue q has completed for the message the consumer holds
completed(q) ==
    /\ delivery' = [delivery EXCEPT ![q].stage = "handled"]
    /\ handled' = [handled EXCEPT ![q] = Append(@, delivery[q].msg.seq)]

(* ------------------------ the Analytics service ------------------------ *)

\* payload.get("user_id") of a payload without the key
NoUser == 0

\* faulty variant: no floor
unfloored(a, b) == b

Max2(a, b) == IF a >= b THEN a ELSE b

\* AggregateMetric() and UserMetric(user_id=...), lines 20-30: the defaults
ZeroAggregate == [total_loans |-> 0, active_loans |-> 0, total_returns |-> 0]
ZeroUser == [loans_taken |-> 0, loans_returned |-> 0]

\* faulty variant: a row is added whether or not there is one
add_aggregate(m) == [m EXCEPT !.aggregate = Append(@, ZeroAggregate)]

\* get_or_create_aggregate, lines 42-49: the row with id 1, made when missing
get_or_create_aggregate(m) ==
    IF m.aggregate = <<>> THEN [m EXCEPT !.aggregate = <<ZeroAggregate>>] ELSE m

\* get_or_create_user_metric, lines 52-59
get_or_create_user_metric(m, user_id) ==
    IF user_id \in DOMAIN m.users
    THEN m
    ELSE [m EXCEPT !.users =
            [u \in DOMAIN m.users \cup {user_id} |->
                IF u = user_id THEN ZeroUser ELSE m.users[u]]]

\* event_handler, lines 68-72: the rows the handler works on
with_rows(m, event) ==
    IF event.user_id # NoUser
    THEN get_or_create_user_metric(get_or_create_aggregate(m), event.user_id)
    ELSE get_or_create_aggregate(m)

\* faulty variant: the user's loans_returned is not counted
counted_no_user_return(m, event) ==
    LET u == event.user_id
    IN  IF event.type = "loan.created"
        THEN [aggregate |-> <<[m.aggregate[1] EXCEPT !.total_loans = @ + 1,
                                                     !.active_loans = @ + 1]>>,
              users |-> IF u \in DOMAIN m.users
                        THEN [m.users EXCEPT ![u].loans_taken = @ + 1]
                        ELSE m.users]
        ELSE IF event.type = "loan.returned"
        THEN [aggregate |-> <<[m.aggregate[1] EXCEPT !.total_returns = @ + 1,
                                    !.active_loans = Max2(0, @ - 1)]>>,
              users |-> m.users]
        ELSE m

\* faulty variant: a return leaves active_loans as it is
counted_active_kept(m, event) ==
    LET u == event.user_id
    IN  IF event.type = "loan.created"
        THEN [aggregate |-> <<[m.aggregate[1] EXCEPT !.total_loans = @ + 1,
                                                     !.active_loans = @ + 1]>>,
              users |-> IF u \in DOMAIN m.users
                        THEN [m.users EXCEPT ![u].loans_taken = @ + 1]
                        ELSE m.users]
        ELSE IF event.type = "loan.returned"
        THEN [aggregate |-> <<[m.aggregate[1] EXCEPT !.total_returns = @ + 1]>>,
              users |-> IF u \in DOMAIN m.users
                        THEN [m.users EXCEPT ![u].loans_returned = @ + 1]
                        ELSE m.users]
        ELSE m

\* event_handler, lines 74-83, on a store m that has the rows
counted(m, event) ==
    LET u == event.user_id
    IN  IF event.type = "loan.created"
        THEN [aggregate |-> <<[m.aggregate[1] EXCEPT !.total_loans = @ + 1,
                                                     !.active_loans = @ + 1]>>,
              users |-> IF u \in DOMAIN m.users
                        THEN [m.users EXCEPT ![u].loans_taken = @ + 1]
                        ELSE m.users]
        ELSE IF event.type = "loan.returned"
        THEN [aggregate |-> <<[m.aggregate[1] EXCEPT !.total_returns = @ + 1,
                                    !.active_loans = Max2(0, @ - 1)]>>,
              users |-> IF u \in DOMAIN m.users
                        THEN [m.users EXCEPT ![u].loans_returned = @ + 1]
                        ELSE m.users]
        ELSE m

\* event_handler of the analytics service, lines 62-88: the store after the
\* handler has committed
analytics_handled(m, event) == counted(with_rows(m, event), event)

\* the analytics consumer's handler completes for the message it holds; the
\* handler has no await, so it is one step
analytics_event_handler ==
    /\ delivery[AnalyticsQueue].stage = "handling"
    /\ metrics' = analytics_handled(metrics, delivery[AnalyticsQueue].msg.event)
    /\ completed(AnalyticsQueue)
    /\ UNCHANGED <<monolith, queue, notifications, books, books0, loans, events, req, now>>

\* the analytics handler raises at its last commit (line 88): the rows that
\* get_or_create committed before (lines 47, 57) stay, the counts are not
\* written; the message is rejected as in handler_raises
analytics_commit_raises ==
    /\ delivery[AnalyticsQueue].stage = "handling"
    /\ metrics' = with_rows(metrics, delivery[AnalyticsQueue].msg.event)
    /\ delivery' = [delivery EXCEPT ![AnalyticsQueue] = Sleeping]
    /\ UNCHANGED <<monolith, queue, notifications, handled,
                   books, books0, loans, events, req, now>>

\* summary, lines 115-118, a plain function the framework runs on a thread
\* pool beside the consumer: session.get of get_or_create_aggregate (line 43)
\* is its first step; a row found is the answer
summary_get(r) ==
    /\ MayStart(r)
    /\ req' = [req EXCEPT ![r] =
            IF metrics.aggregate = <<>>
            THEN [@ EXCEPT !.kind = "summary", !.pc = "insert"]
            ELSE [@ EXCEPT !.kind = "summary", !.pc = "done", !.code = 200,
                           !.result = <<metrics.aggregate[1]>>]]
    /\ UNCHANGED <<monolith, consumers, books, books0, loans, events, now>>

\* summary: session.add and session.commit of get_or_create_aggregate (lines
\* 45-47) after a get that found no row.  The row is inserted with id 1, the
\* primary key (line 21): when the consumer has made the row in between, the
\* insert is refused and the request ends with an error
summary_insert(r) ==
    /\ req[r].pc = "insert"
    /\ IF metrics.aggregate = <<>>
       THEN /\ metrics' = [metrics EXCEPT !.aggregate = <<ZeroAggregate>>]
            /\ req' = [req EXCEPT ![r] = [@ EXCEPT !.pc = "done", !.code = 200,
                                                   !.result = <<ZeroAggregate>>]]
       ELSE /\ req' = [req EXCEPT ![r] = Raise(r, 500, "IntegrityError")]
            /\ UNCHANGED metrics
    /\ UNCHANGED <<monolith, queue, delivery, notifications, handled,
                   books, books0, loans, events, now>>

\* faulty variant: a read of a user without a row makes the row
user_metrics_saved(r, user_id) ==
    /\ MayStart(r)
    /\ metrics' = get_or_create_user_metric(metrics, user_id)
    /\ req' = [req EXCEPT ![r] = [@ EXCEPT !.kind = "user_metrics",
                    !.pc = "done", !.code = 200, !.user_id = user_id,
                    !.result = <<metrics'.users[user_id]>>]]
    /\ UNCHANGED <<monolith, queue, delivery, notifications, handled,
                   books, books0, loans, events, now>>

\* user_metrics, lines 121-126: the row of the user, or UserMetric(user_id)
\* that is not added to the session
user_metrics(r, user_id) ==
    /\ MayStart(r)
    /\ req' = [req EXCEPT ![r] = [@ EXCEPT !.kind = "user_metrics",
                    !.pc = "done", !.code = 200, !.user_id = user_id,
                    !.result = <<IF user_id \in DOMAIN metrics.users
                                 THEN metrics.users[user_id]
                                 ELSE ZeroUser>>]]
    /\ UNCHANGED <<monolith, consumers, books, books0, loans, events, now>>

\* an event type of the loan.* family that no branch of the handlers names
OtherType == "loan.extended"

\* the payloads the analytics consumer receives: with or without a user_id
AnalyticsPayloads == [loan_id : {1}, user_id : Users \cup {NoUser}, book_id : BookIds]

\* the analytics service alone: its consumer has bound its queue, and clients
\* read the summary and the metrics of a user
AnalyticsInit ==
    /\ books = [b \in BookIds |->
                    [total_copies |-> MaxCopies, available_copies |-> MaxCopies]]
    /\ books0 = books
    /\ loans = <<>>
    /\ events = <<>>
    /\ req = [r \in 1..MaxReads |-> IdleReq]
    /\ now = 0
    /\ queue = [q \in {AnalyticsQueue} |-> <<>>]
    /\ delivery = [q \in {AnalyticsQueue} |-> Waiting]
    /\ metrics = NoMetrics
    /\ notifications = <<>>
    /\ handled = [q \in {AnalyticsQueue} |-> <<>>]
    /\ NoSweep

AnalyticsNext ==
    \/ \E t \in EventTypes \cup {OtherType}, p \in AnalyticsPayloads :
          publish_event(t, p)
    \/ consume_events_next(AnalyticsQueue)
    \/ analytics_event_handler
    \/ message_ack(AnalyticsQueue)
    \/ handler_raises(AnalyticsQueue)
    \/ analytics_commit_raises
    \/ connection_lost(AnalyticsQueue)
    \/ start_consumer(AnalyticsQueue)
    \/ \E r \in DOMAIN req : summary_get(r)
    \/ \E r \in DOMAIN req : summary_insert(r)
    \/ \E r \in DOMAIN req, u \in Users : user_metrics(r, u)

AnalyticsSpec == AnalyticsInit /\ [][AnalyticsNext]_vars

(* ----------------------- the Notification service ---------------------- *)

\* payload.get(key, default)
get(payload, key, default) ==
    IF key \in DOMAIN payload THEN payload[key] ELSE default

\* the phrases of lines 50, 52 and 54 (Russian in the source): "took the
\* book", "returned the book", "received the event"
TookBook == " vzyal knigu "
ReturnedBook == " vernul knigu "
ReceivedEvent == "Polucheno sobytie "

\* faulty variant: every event is told as a loan
message_for_loan(event) ==
    <<get(event, "user_name", "None"), TookBook, get(event, "book_title", "None")>>

\* event_handler, lines 49-54: the message text by event type, as the parts
\* the f-string joins; payload.get of a missing key is None
message_for(event) ==
    IF event.type = "loan.created"
    THEN <<get(event, "user_name", "None"), TookBook,
           get(event, "book_title", "None")>>
    ELSE IF event.type = "loan.returned"
    THEN <<get(event, "user_name", "None"), ReturnedBook,
           get(event, "book_title", "None")>>
    ELSE <<ReceivedEvent, event.type>>

\* event_handler, lines 56-62: Notification(...), whose created_at is the
\* clock's value (line 31)
notification(event, read) ==
    [id |-> Len(notifications) + 1, user_id |-> get(event, "user_id", 0),
     user_name |-> get(event, "user_name", "unknown"),
     book_title |-> get(event, "book_title", "unknown"),
     event_type |-> event.type, message |-> message_for(event),
     created_at |-> read, delivered |-> FALSE]

\* faulty variant: an event whose user and type have a record is skipped
notified_once(event, read) ==
    IF \E i \in 1..Len(notifications) :
            /\ notifications[i].user_id = event.user_id
            /\ notifications[i].event_type = event.type
    THEN notifications
    ELSE Append(notifications, notification(event, read))

\* event_handler, lines 64-66: the record is added and committed
notified(event, read) == Append(notifications, notification(event, read))

\* the notification consumer's handler completes for the message it holds
notification_event_handler ==
    /\ delivery[NotificationQueue].stage = "handling"
    /\ \E read \in ClockReads :
        /\ now' = read
        /\ notifications' = notified(delivery[NotificationQueue].msg.event, read)
    /\ completed(NotificationQueue)
    /\ UNCHANGED <<monolith, queue, metrics, books, books0, loans, events, req>>

\* Query(default=50, le=200), line 98
LIMIT_DEFAULT == 50
LIMIT_MAX == 200

\* the limits a client sends: a query parameter is <<>> when it is not given
Limits == {0 - 1, 0, 1, LIMIT_MAX + 1}
Given(values) == {<<>>} \cup {<<v>> : v \in values}

\* line 102: the records of the user, all of them when user_id is not given
matching(user_id) ==
    {i \in 1..Len(notifications) :
        user_id = <<>> \/ notifications[i].user_id = user_id[1]}

\* line 100, order_by(created_at.desc()): the orders the database may give
\* the records in; records of one created_at come in any order
newest_first(ids) ==
    {order \in [1..Cardinality(ids) -> ids] :
        /\ \A i, j \in 1..Cardinality(ids) : i # j => order[i] # order[j]
        /\ \A i, j \in 1..Cardinality(ids) : i < j =>
                notifications[order[i]].created_at
                    >= notifications[order[j]].created_at}

\* line 100, limit(limit), on SQLite (line 13): the first limit rows, and all
\* the rows when limit is negative
limited(order, limit) ==
    IF limit < 0 THEN order ELSE SubSeq(order, 1, Min2(limit, Len(order)))

\* list_notifications, lines 95-105: one query; a limit above 200 is refused
\* before the handler runs
list_notifications(r, user_id, limit) ==
    LET n == IF limit = <<>> THEN LIMIT_DEFAULT ELSE limit[1]
        u == IF user_id = <<>> THEN NoUser ELSE user_id[1]
    IN  /\ MayStart(r)
        /\ IF n > LIMIT_MAX
           THEN req' = [req EXCEPT ![r] = [@ EXCEPT !.kind = "list", !.pc = "done",
                            !.user_id = u, !.count = n, !.code = 422,
                            !.detail = "less_than_equal"]]
           ELSE \E order \in newest_first(matching(user_id)) :
                    req' = [req EXCEPT ![r] = [@ EXCEPT !.kind = "list",
                            !.pc = "done", !.user_id = u, !.count = n,
                            !.code = 200, !.result = limited(order, n)]]
        /\ UNCHANGED <<monolith, consumers, books, books0, loans, events, now>>

\* the names and titles of the payloads
UserNames == {"ann", "bob"}
BookTitles == {"Dune"}

\* the payloads the notification consumer receives: with the user's name and
\* the book's title, as create_loan and return_loan send them, or without
NotificationPayloads ==
    [loan_id : {1}, user_id : Users, book_id : BookIds,
     user_name : UserNames, book_title : BookTitles]
        \cup [loan_id : {1}, user_id : Users, book_id : BookIds]

\* the notification service alone: its consumer has bound its queue, and
\* clients list the notifications
NotificationInit ==
    /\ books = [b \in BookIds |->
                    [total_copies |-> MaxCopies, available_copies |-> MaxCopies]]
    /\ books0 = books
    /\ loans = <<>>
    /\ events = <<>>
    /\ req = [r \in 1..MaxLists |-> IdleReq]
    /\ now = 0
    /\ queue = [q \in {NotificationQueue} |-> <<>>]
    /\ delivery = [q \in {NotificationQueue} |-> Waiting]
    /\ metrics = NoMetrics
    /\ notifications = <<>>
    /\ handled = [q \in {NotificationQueue} |-> <<>>]
    /\ NoSweep

NotificationNext ==
    \/ \E t \in EventTypes \cup {OtherType}, p \in NotificationPayloads :
          publish_event(t, p)
    \/ consume_events_next(NotificationQueue)
    \/ notification_event_handler
    \/ message_ack(NotificationQueue)
    \/ handler_raises(NotificationQueue)
    \/ connection_lost(NotificationQueue)
    \/ start_consumer(NotificationQueue)
    \/ \E r \in DOMAIN req, u \in Given(Users), n \in Given(Limits) :
          list_notifications(r, u, n)

NotificationSpec == NotificationInit /\ [][NotificationNext]_vars

\* the payloads of the events a publisher sends
Payloads == [loan_id : 1..MaxEvents, user_id : Users, book_id : BookIds]

\* both consumers have declared and bound their queues; nothing was published
BusInit ==
    /\ books = [b \in BookIds |->
                    [total_copies |-> MaxCopies, available_copies |-> MaxCopies]]
    /\ books0 = books
    /\ loans = <<>>
    /\ events = <<>>
    /\ req = <<>>
    /\ now = 0
    /\ queue = [q \in Queues |-> <<>>]
    /\ delivery = [q \in Queues |-> Waiting]
    /\ metrics = NoMetrics
    /\ notifications = <<>>
    /\ handled = [q \in Queues |-> <<>>]
    /\ NoSweep

BusNext ==
    \/ \E t \in EventTypes, p \in Payloads : publish_event(t, p)
    \/ \E q \in Queues : consume_events_next(q)
    \/ analytics_event_handler
    \/ notification_event_handler
    \/ \E q \in Queues : message_ack(q)
    \/ \E q \in Queues : handler_raises(q)
    \/ analytics_commit_raises
    \/ \E q \in Queues : connection_lost(q)
    \/ \E q \in Queues : start_consumer(q)

BusSpec == BusInit /\ [][BusNext]_vars

\* start_consumer, a task of each service's event loop: a consumer that can
\* take the next message, complete its handler for the message it holds,
\* acknowledge it or, after its sleep, subscribe again does so (the broker
\* accepts the connection in the end); nothing obliges a publisher to
\* publish, a handler to fail or a connection to break
Consuming ==
    /\ \A q \in Queues : WF_vars(start_consumer(q))
    /\ \A q \in Queues : WF_vars(consume_events_next(q))
    /\ \A q \in Queues : WF_vars(message_ack(q))
    /\ WF_vars(analytics_event_handler)
    /\ WF_vars(notification_event_handler)

BusFairSpec == BusSpec /\ Consuming

\* the payload of the events of one loan
OneLoan == [loan_id |-> 1, user_id |-> 1, book_id |-> 1]

\* the two consumers and their retry loops, with a publisher that sends the
\* events of one loan: what the events carry does not matter to the loops
RetryNext ==
    \/ \E t \in EventTypes : publish_event(t, OneLoan)
    \/ \E q \in Queues : consume_events_next(q)
    \/ analytics_event_handler
    \/ notification_event_handler
    \/ \E q \in Queues : message_ack(q)
    \/ \E q \in Queues : handler_raises(q)
    \/ analytics_commit_raises
    \/ \E q \in Queues : connection_lost(q)
    \/ \E q \in Queues : start_consumer(q)

RetrySpec == BusInit /\ [][RetryNext]_vars /\ Consuming

(* ------------------ the monolith's overdue sweep ----------------------- *)

\* Loan.save, core/models.py line 53: timedelta(days=14)
DEFAULT_LOAN_DAYS == 14

\* Loan.save, lines 49-57, of a new loan (BorrowBookSerializer.create, or the
\* admin's form with a due date): due_date is the clock's value plus 14 days
\* when none is given; is_returned is False
Loan_save(due_date) ==
    /\ Len(Loan_objects) < MaxLoans
    /\ \E read \in ClockReads :
        /\ now' = read
        /\ Loan_objects' = Append(Loan_objects,
                [due_date |-> IF due_date = <<>> THEN read + DEFAULT_LOAN_DAYS
                              ELSE due_date[1],
                 returned_date |-> NoDate, is_returned |-> FALSE])
    /\ UNCHANGED <<consumers, books, books0, loans, events, req,
                   celery, sweep, outbox>>

\* Loan.mark_as_returned, lines 59-64, called by the admin's action for the
\* loans that are not returned (admin.py lines 20-25)
mark_as_returned(id) ==
    /\ id \in 1..Len(Loan_objects)
    /\ ~Loan_objects[id].is_returned
    /\ \E read \in ClockReads :
        /\ now' = read
        /\ Loan_objects' = [Loan_objects EXCEPT ![id].returned_date = read,
                                                ![id].is_returned = TRUE]
    /\ UNCHANGED <<consumers, books, books0, loans, events, req,
                   celery, sweep, outbox>>

\* tasks.py lines 75-78: filter(due_date__lt=timezone.now(), is_returned=False)
overdue(rows, at) ==
    {id \in 1..Len(rows) : rows[id].due_date < at /\ ~rows[id].is_returned}

\* the orders the database may give the selected rows in
Orders(ids) ==
    {order \in [1..Cardinality(ids) -> ids] :
        \A i, j \in 1..Cardinality(ids) : i # j => order[i] # order[j]}

\* check_overdue_loans_and_send_notifications, lines 71-80: the task starts
\* (celery beat), reads the clock and runs the query when the loop begins;
\* runs of the task follow one another
sweep_begin ==
    /\ sweep.pc # "loop"
    /\ sweep.runs < MaxSweeps
    /\ \E read \in ClockReads :
        /\ now' = read
        /\ \E order \in Orders(overdue(Loan_objects, read)) :
            sweep' = [pc |-> "loop", runs |-> sweep.runs + 1, now |-> read,
                      selected |-> overdue(Loan_objects, read),
                      rest |-> order, sent |-> <<>>]
    /\ UNCHANGED <<consumers, books, books0, loans, events, req,
                   Loan_objects, celery, outbox>>

\* line 82: send_overdue_notification_email.delay(loan.id) for the next loan
\* of the loop; the task is queued
sweep_delay ==
    /\ sweep.pc = "loop"
    /\ sweep.rest # <<>>
    /\ celery' = Append(celery, Head(sweep.rest))
    /\ sweep' = [sweep EXCEPT !.rest = Tail(@), !.sent = Append(@, Head(sweep.rest))]
    /\ UNCHANGED <<consumers, books, books0, loans, events, req, now,
                   Loan_objects, outbox>>

\* line 82: delay raises (the task's broker cannot be reached); the loop has
\* no try, the exception leaves the sweep and the task ends with it
sweep_delay_raises ==
    /\ sweep.pc = "loop"
    /\ sweep.rest # <<>>
    /\ sweep' = [sweep EXCEPT !.pc = "failed"]
    /\ UNCHANGED <<consumers, books, books0, loans, events, req, now,
                   Loan_objects, celery, outbox>>

\* lines 80-84: the loop has no loan left and the task ends
sweep_end ==
    /\ sweep.pc = "loop"
    /\ sweep.rest = <<>>
    /\ sweep' = [sweep EXCEPT !.pc = "done"]
    /\ UNCHANGED <<consumers, books, books0, loans, events, req, now,
                   Loan_objects, celery, outbox>>

\* faulty variant: the task closes the loan it has sent the mail for
send_overdue_and_close ==
    /\ celery # <<>>
    /\ outbox' = Append(outbox, Head(celery))
    /\ celery' = Tail(celery)
    /\ Loan_objects' = [Loan_objects EXCEPT ![Head(celery)].is_returned = TRUE]
    /\ UNCHANGED <<consumers, books, books0, loans, events, req, now, sweep>>

\* send_overdue_notification_email, lines 41-65: a worker runs the next task;
\* the loan is read and the mail is sent
send_overdue_notification_email ==
    /\ celery # <<>>
    /\ outbox' = Append(outbox, Head(celery))
    /\ celery' = Tail(celery)
    /\ UNCHANGED <<consumers, books, books0, loans, events, req, now,
                   Loan_objects, sweep>>

\* send_overdue_notification_email, lines 66-69: rendering or send_mail
\* raises; the exception is caught and printed, and the task ends
send_overdue_notification_email_raises ==
    /\ celery # <<>>
    /\ celery' = Tail(celery)
    /\ UNCHANGED <<consumers, books, books0, loans, events, req, now,
                   Loan_objects, sweep, outbox>>

\* the monolith with an empty Loan table
SweepInit ==
    /\ books = [b \in BookIds |->
                    [total_copies |-> MaxCopies, available_copies |-> MaxCopies]]
    /\ books0 = books
    /\ loans = <<>>
    /\ events = <<>>
    /\ req = <<>>
    /\ now = 0
    /\ Unbound
    /\ NoSweep

SweepNext ==
    \/ \E due_date \in Given(0..MaxTime) : Loan_save(due_date)
    \/ \E id \in 1..MaxLoans : mark_as_returned(id)
    \/ sweep_begin
    \/ sweep_delay
    \/ sweep_delay_raises
    \/ sweep_end
    \/ send_overdue_notification_email
    \/ send_overdue_notification_email_raises

SweepSpec == SweepInit /\ [][SweepNext]_vars

(* ----------------------------- the start ------------------------------- *)

\* the services start with an empty Loan table and the books create_book made
Init ==
    /\ loans = <<>>
    /\ books \in [BookIds -> {b \in BookRows : b.available_copies <= b.total_copies}]
    /\ books0 = books
    /\ events = <<>>
    /\ req = [r \in 1..MaxReqs |-> IdleReq]
    /\ now = 0
    /\ Unbound
    /\ NoSweep

Next ==
    \/ \E r \in DOMAIN req, u \in Users, b \in BookIds \cup {AbsentBook} :
          create_loan_fetch(r, u, b)
    \/ \E r \in DOMAIN req, u \in Users, b \in BookIds \cup {AbsentBook} :
          create_loan_fetch_unavailable(r, u, b)
    \/ \E r \in DOMAIN req : create_loan_check(r)
    \/ \E r \in DOMAIN req : reserve_book_read(r)
    \/ \E r \in DOMAIN req : reserve_book_commit(r)
    \/ \E r \in DOMAIN req : create_loan_persist_fail(r)
    \/ \E r \in DOMAIN req : create_loan_persist(r)
    \/ \E r \in DOMAIN req : adjust_inventory_unsent(r)
    \/ \E r \in DOMAIN req : adjust_inventory_unanswered(r)
    \/ \E r \in DOMAIN req : create_loan_publish(r)
    \/ \E r \in DOMAIN req : create_loan_publish_fail(r)
    \/ \E r \in DOMAIN req, l \in LoanIds, u \in Users : return_loan_begin(r, l, u)
    \/ \E r \in DOMAIN req : release_book_read(r)
    \/ \E r \in DOMAIN req : release_book_commit(r)
    \/ \E r \in DOMAIN req : return_loan_publish(r)
    \/ \E r \in DOMAIN req : return_loan_publish_fail(r)

Spec == Init /\ [][Next]_vars


(* ------------------------------- claims -------------------------------- *)

\* a request that has answered does nothing more
Answer(r) == req[r].pc = "done" => req'[r] = req[r]

\* C1: every book has 0 <= available_copies <= total_copies after any sequence
\* of reserve and release calls with counts the endpoints accept.
C1_AvailableWithinTotal ==
    \A b \in DOMAIN books :
        /\ 0 <= books[b].available_copies
        /\ books[b].available_copies <= books[b].total_copies

\* C2: no pair of a user and a book has two active loans.
C2_OneActiveLoanPerPair ==
    \A i, j \in 1..Len(loans) :
        (/\ loans[i].status = "active"
         /\ loans[j].status = "active"
         /\ loans[i].user_id = loans[j].user_id
         /\ loans[i].book_id = loans[j].book_id) => i = j

\* C3: the active loans of a book are never more than its total_copies.
C3_ActiveLoansWithinCopies ==
    \A b \in DOMAIN books :
        Cardinality({i \in 1..Len(loans) :
            loans[i].book_id = b /\ loans[i].status = "active"})
          <= books[b].total_copies


\* what the request r that succeeded added to the available copies of book b
Delta(r, b) ==
    IF req[r].book_id = b /\ req[r].code = 200
    THEN IF req[r].kind = "reserve" THEN 0 - req[r].count
         ELSE IF req[r].kind = "release" THEN req[r].count ELSE 0
    ELSE 0

RECURSIVE Net(_, _)
Net(S, b) ==
    IF S = {} THEN 0
    ELSE LET r == CHOOSE x \in S : TRUE
         IN  Delta(r, b) + Net(S \ {r}, b)

\* C5: no update of a book row is lost: once every reserve and release request
\* has answered, available_copies is its first value minus the counts of the
\* reserves that succeeded plus the counts of the releases that succeeded
\* (stated for requests with count >= 1, as the loan workflow sends them).
C5_NoLostUpdate ==
    (\A r \in DOMAIN req :
        req[r].pc \in {"idle", "done"} /\ (req[r].kind # "none" => req[r].count >= 1)) =>
        \A b \in DOMAIN books :
            books[b].available_copies
                = books0[b].available_copies + Net(DOMAIN req, b)

\* C6: a create-loan request that has ended and whose reservation the catalog
\* wrote has persisted its Loan, or has sent a release call to compensate.
C6_NoUnrecordedReservation ==
    \A r \in DOMAIN req :
        (req[r].kind = "create" /\ req[r].pc = "done" /\ req[r].wrote) =>
            (req[r].loan_id # 0 \/ req[r].n_release > 0)

\* c is a create-loan that succeeded, t the return of its loan that succeeded,
\* and no other request has written the book's row
RoundTrip(c, t) ==
    /\ req[c].kind = "create" /\ req[c].code = 201
    /\ req[t].kind = "return" /\ req[t].code = 200
    /\ req[t].loan_id = req[c].loan_id
    /\ \A q \in DOMAIN req \ {c, t} : ~req[q].wrote

\* C4: a create-loan that succeeds followed by the return of that loan that
\* succeeds, with no other write of the book's row, leaves available_copies
\* as it was before the create-loan.
C4_RoundTrip ==
    \A c, t \in DOMAIN req :
        RoundTrip(c, t) =>
            books[req[c].book_id].available_copies
                = books0[req[c].book_id].available_copies

C4_Witness == \E c, t \in DOMAIN req : RoundTrip(c, t)

\* one step of the Loan table
LoanStep ==
    /\ Len(loans') >= Len(loans)
    /\ \A i \in 1..Len(loans) :
        /\ loans'[i].id = loans[i].id
        /\ loans[i].status = "returned" => loans'[i] = loans[i]
        /\ loans[i].status = "active" =>
            \/ loans'[i] = loans[i]
            \/ loans'[i].status = "returned"
    /\ \A i \in (Len(loans) + 1)..Len(loans') : loans'[i].status = "active"
    /\ \A i \in 1..Len(loans') : loans'[i].status \in {"active", "returned"}

\* C7: a Loan is created active, its status is active or returned, the only
\* change is active -> returned, a returned loan stays as it is, and no Loan
\* row is deleted.
C7_LoanLifecycle == [][LoanStep]_vars

C7_Witness ==
    \E i \in 1..Len(loans) :
        /\ loans[i].status = "returned"
        /\ \E r \in DOMAIN req :
            req[r].kind = "return" /\ req[r].loan_id = i /\ req[r].code = 400

\* request r arrives in this step as a return of loan l by user u
ReturnArrives(r) == req[r].kind = "none" /\ req'[r].kind = "return"

\* nothing of the stores changes, and r has sent no release call and no event
NoEffect(r) ==
    /\ loans' = loans
    /\ books' = books
    /\ events' = events
    /\ req'[r].pc = "done"
    /\ req'[r].n_reserve = 0
    /\ req'[r].n_release = 0
    /\ req'[r].n_events = 0

\* C8: a return by the owner of a loan that is returned already answers 400
\* "Loan already returned" and changes nothing: the Loan row (returned_date
\* too) stays, no release call is sent, no event is published.
C8_AlreadyReturned ==
    [][\A r \in DOMAIN req :
        /\ Answer(r)
        /\ (/\ ReturnArrives(r)
            /\ req'[r].loan_id \in 1..Len(loans)
            /\ loans[req'[r].loan_id].user_id = req'[r].user_id
            /\ loans[req'[r].loan_id].status = "returned") =>
                /\ req'[r].code = 400
                /\ req'[r].detail = "Loan already returned"
                /\ NoEffect(r)]_vars

C8_Witness ==
    \E r \in DOMAIN req :
        /\ req[r].kind = "return"
        /\ req[r].loan_id \in 1..Len(loans)
        /\ loans[req[r].loan_id].user_id = req[r].user_id
        /\ req[r].code = 400
        /\ req[r].detail = "Loan already returned"

\* C9: a return by a user who is not the loan's user answers 403 whatever the
\* loan's status, a return of a loan id that names no loan answers 404, and
\* both change nothing: no Loan row changes, no release call, no event.
C9_ForbiddenNotFound ==
    [][\A r \in DOMAIN req :
        /\ Answer(r)
        /\ (/\ ReturnArrives(r)
            /\ req'[r].loan_id \in 1..Len(loans)
            /\ loans[req'[r].loan_id].user_id # req'[r].user_id) =>
                /\ req'[r].code = 403
                /\ NoEffect(r)
        /\ (/\ ReturnArrives(r)
            /\ req'[r].loan_id \notin 1..Len(loans)) =>
                /\ req'[r].code = 404
                /\ NoEffect(r)]_vars

C9_Witness ==
    \E r, q \in DOMAIN req :
        /\ req[r].kind = "return" /\ req[r].code = 403
        /\ req[r].loan_id \in 1..Len(loans)
        /\ loans[req[r].loan_id].user_id # req[r].user_id
        /\ req[q].kind = "return" /\ req[q].code = 404
        /\ req[q].loan_id \notin 1..Len(loans)

\* C10: a create-loan whose snapshot has available_copies <= 0 answers 400
\* "No available copies"; no reserve call is sent, no Loan is persisted and
\* no event is published.
C10_NoCopiesAvailable ==
    [][\A r \in DOMAIN req :
        /\ Answer(r)
        /\ (/\ req[r].kind = "create"
            /\ req[r].pc = "check"
            /\ req[r].snap <= 0
            /\ req'[r] # req[r]) =>
                /\ req'[r].code = 400
                /\ req'[r].detail = "No available copies"
                /\ req'[r].loan_id = 0
                /\ NoEffect(r)]_vars

C10_Witness ==
    \E r \in DOMAIN req :
        /\ req[r].kind = "create"
        /\ req[r].snap <= 0
        /\ req[r].code = 400
        /\ req[r].detail = "No available copies"

\* the create-loan request r makes its checks in this step (lines 141-152)
CreateChecks(r) ==
    /\ req[r].kind = "create"
    /\ req[r].pc = "check"
    /\ req'[r] # req[r]

\* the Loan table has a loan of r's user and book with this status
PairLoan(r, status) ==
    \E i \in 1..Len(loans) :
        /\ loans[i].user_id = req[r].user_id
        /\ loans[i].book_id = req[r].book_id
        /\ loans[i].status = status

\* r is rejected in this step with this detail, before any reservation
RejectedEarly(r, detail) ==
    /\ req'[r].code = 400
    /\ req'[r].detail = detail
    /\ req'[r].loan_id = 0
    /\ NoEffect(r)

\* r passes the checks in this step: its reserve call is sent
Accepted(r) ==
    /\ req'[r].pc = "reserve_sent"
    /\ req'[r].n_reserve = 1

\* C11 as stated: a create-loan for a pair that has an active loan is rejected
\* with 400 "Active loan already exists for this user and book" before any
\* reservation (no reserve call, no Loan, no event); once the pair has no
\* active loan again, a create-loan that fetched a copy is accepted.
C11_DuplicateRejected ==
    [][\A r \in DOMAIN req :
        /\ (CreateChecks(r) /\ PairLoan(r, "active")) =>
                RejectedEarly(r, "Active loan already exists for this user and book")
        /\ (CreateChecks(r) /\ ~PairLoan(r, "active") /\ req[r].snap > 0) =>
                Accepted(r)]_vars

\* C11, amended: a create-loan for a pair that has an active loan is rejected
\* with HTTP 400 before any reservation (no reserve call, no Loan, no event):
\* with "Active loan already exists for this user and book" when the snapshot
\* it fetched shows a copy, with "No available copies" when it shows none;
\* once the pair's loan is returned, a create-loan that fetched a copy is
\* accepted again.
C11_DuplicateRejectedAfterCopies ==
    [][\A r \in DOMAIN req :
        /\ Answer(r)
        /\ (CreateChecks(r) /\ PairLoan(r, "active") /\ req[r].snap > 0) =>
                RejectedEarly(r, "Active loan already exists for this user and book")
        /\ (CreateChecks(r) /\ PairLoan(r, "active") /\ req[r].snap <= 0) =>
                RejectedEarly(r, "No available copies")
        /\ (CreateChecks(r) /\ ~PairLoan(r, "active") /\ req[r].snap > 0) =>
                Accepted(r)]_vars

\* the loan of request c was returned by request t, and the later request r
\* for the same pair has passed the checks
C11_Witness ==
    \E c, t, r \in DOMAIN req :
        /\ c < t /\ t < r
        /\ req[c].kind = "create" /\ req[c].loan_id # 0
        /\ req[t].kind = "return" /\ req[t].loan_id = req[c].loan_id
        /\ req[t].n_release = 1
        /\ loans[req[c].loan_id].status = "returned"
        /\ req[r].kind = "create" /\ req[r].n_reserve = 1
        /\ req[r].user_id = req[c].user_id /\ req[r].book_id = req[c].book_id
        /\ ~PairLoan(r, "active")

\* the create-loan requests that have inserted a Loan row
Persisted == {r \in DOMAIN req : req[r].kind = "create" /\ req[r].loan_id # 0}

\* the events of this type on the exchange
EventsOf(event_type) == {i \in 1..Len(events) : events[i].type = event_type}

\* the catalog call of the create-loan request r failed: the fetch (book
\* absent, catalog not reached) or the reserve (refused, not reached, no answer)
CatalogCallFailed(r) ==
    /\ req[r].kind = "create"
    /\ req[r].pc = "done"
    /\ \/ req[r].code \in {404, 503}
       \/ req[r].detail = "Not enough copies available"

\* C12: a create-loan whose catalog call fails (fetch: book absent or catalog
\* not reached; reserve: refused or not reached) is aborted and not retried:
\* it has sent at most one reserve call, has persisted no Loan and published
\* no event; a Loan row exists only for a request whose reserve succeeded; a
\* catalog that is not reached or does not answer is reported as 503.
C12_CatalogFailureAborts ==
    /\ Len(loans) = Cardinality(Persisted)
    /\ Cardinality(EventsOf("loan.created"))
            = Cardinality({r \in Persisted : req[r].n_events > 0})
    /\ \A r \in DOMAIN req : req[r].kind = "create" =>
        /\ req[r].n_reserve <= 1
        /\ req[r].n_events > 0 => req[r].loan_id # 0
        /\ req[r].loan_id # 0 => req[r].wrote /\ req[r].n_reserve = 1
        /\ CatalogCallFailed(r) => req[r].loan_id = 0 /\ req[r].n_events = 0
        /\ req[r].detail = "Catalog service unavailable" => req[r].code = 503

\* three create-loan requests have failed: one at the fetch, one at a reserve
\* the catalog refused, one at a reserve that was sent and not answered
C12_Witness ==
    \E p, q, r \in DOMAIN req :
        /\ CatalogCallFailed(p) /\ req[p].n_reserve = 0
        /\ CatalogCallFailed(q) /\ req[q].n_reserve = 1
        /\ req[q].detail = "Not enough copies available"
        /\ CatalogCallFailed(r) /\ req[r].n_reserve = 1 /\ req[r].code = 503

\* the request r takes this step from the place pc
Steps(r, pc) == req[r].pc = pc /\ req'[r] # req[r]

\* every request that has arrived carries a count of 1 or more
PositiveCounts ==
    \A q \in DOMAIN req : req[q].kind # "none" => req[q].count >= 1

\* C13: reserve(book_id, count) answers 404 for an absent book and 400 when
\* available_copies < count, and leaves the store as it is; otherwise the
\* store's available_copies goes down by exactly count when the handler
\* commits and answers (stated for counts of 1 or more).
C13_ReserveContract ==
    [][PositiveCounts =>
        \A r \in DOMAIN req :
            LET b == req[r].book_id
                c == req[r].count
            IN  /\ (Steps(r, "reserve_sent") /\ b \notin DOMAIN books) =>
                        req'[r].code = 404 /\ books' = books
                /\ (/\ Steps(r, "reserve_sent")
                    /\ b \in DOMAIN books
                    /\ books[b].available_copies < c) =>
                        req'[r].code = 400 /\ books' = books
                /\ (/\ Steps(r, "reserve_sent")
                    /\ b \in DOMAIN books
                    /\ books[b].available_copies >= c) =>
                        req'[r].pc = "reserve_read" /\ books' = books
                /\ Steps(r, "reserve_read") =>
                        /\ req'[r].code = 200
                        /\ books'[b].available_copies
                                = books[b].available_copies - c
                        /\ books'[b].total_copies = books[b].total_copies]_vars

\* C14: release(book_id, count) answers 404 for an absent book and 400 when
\* available_copies + count > total_copies, and leaves available_copies as it
\* is; otherwise the store's available_copies goes up by exactly count when
\* the handler commits and answers (stated for counts of 1 or more).
C14_ReleaseContract ==
    [][PositiveCounts =>
        \A r \in DOMAIN req :
            LET b == req[r].book_id
                c == req[r].count
            IN  /\ (Steps(r, "release_sent") /\ b \notin DOMAIN books) =>
                        req'[r].code = 404 /\ books' = books
                /\ (/\ Steps(r, "release_sent")
                    /\ b \in DOMAIN books
                    /\ books[b].available_copies + c > books[b].total_copies) =>
                        req'[r].code = 400 /\ books' = books
                /\ (/\ Steps(r, "release_sent")
                    /\ b \in DOMAIN books
                    /\ books[b].available_copies + c <= books[b].total_copies) =>
                        req'[r].pc = "release_read" /\ books' = books
                /\ Steps(r, "release_read") =>
                        /\ req'[r].code = 200
                        /\ books'[b].available_copies
                                = books[b].available_copies + c
                        /\ books'[b].total_copies = books[b].total_copies]_vars

\* the events of this type that carry this loan id
EventsFor(event_type, loan_id) ==
    {i \in EventsOf(event_type) : events[i].loan_id = loan_id}

\* the request r of this kind has answered with this code for the loan
Succeeded(r, kind, code, loan_id) ==
    /\ req[r].kind = kind
    /\ req[r].code = code
    /\ req[r].loan_id = loan_id

\* C15: a create-loan that answered 201 has published exactly one loan.created
\* event with its loan's id, a return-loan that answered 200 exactly one
\* loan.returned event with its loan's id; a loan.created event is on the
\* exchange only when its Loan row exists and the reserve was written, a
\* loan.returned event only when the loan is returned and the release was
\* written; a request that was rejected has published nothing.
C15_OneEventPerSuccess ==
    /\ \A r \in DOMAIN req :
        /\ (req[r].kind = "create" /\ req[r].code = 201) =>
            /\ req[r].n_events = 1
            /\ Cardinality(EventsFor("loan.created", req[r].loan_id)) = 1
        /\ (req[r].kind = "return" /\ req[r].code = 200) =>
            /\ req[r].n_events = 1
            /\ Cardinality(EventsFor("loan.returned", req[r].loan_id)) = 1
        /\ req[r].code \notin {0, 200, 201} => req[r].n_events = 0
    /\ \A i \in 1..Len(events) :
        LET e == events[i]
        IN  /\ e.loan_id \in 1..Len(loans)
            /\ loans[e.loan_id].user_id = e.user_id
            /\ loans[e.loan_id].book_id = e.book_id
            /\ e.type = "loan.created" =>
                \E r \in DOMAIN req :
                    Succeeded(r, "create", 201, e.loan_id) /\ req[r].wrote
            /\ e.type = "loan.returned" =>
                /\ loans[e.loan_id].status = "returned"
                /\ \E r \in DOMAIN req :
                    Succeeded(r, "return", 200, e.loan_id) /\ req[r].wrote
    /\ Len(events) = Cardinality({r \in DOMAIN req : req[r].code \in {200, 201}})

\* a loan was created and returned with success, and a third request was
\* rejected
C15_Witness ==
    \E c, t, x \in DOMAIN req :
        /\ Succeeded(c, "create", 201, 1)
        /\ Succeeded(t, "return", 200, 1)
        /\ req[x].code >= 400
        /\ Len(events) = 2

\* the release call of the return-loan request r failed: the catalog refused
\* it, was not reached, or did not answer
ReleaseFailed(r) ==
    /\ req[r].kind = "return"
    /\ req[r].pc = "done"
    /\ req[r].n_release = 1
    /\ req[r].code \in {400, 404, 503}

\* a return-loan request has sent its release call only with the loan saved
\* as returned, and sends it once; after a failed release the loan is still
\* returned, the caller has the error and no event was published
ReturnedBeforeRelease ==
    \A r \in DOMAIN req : req[r].kind = "return" =>
        /\ req[r].n_release <= 1
        /\ req[r].n_release = 1 =>
            /\ req[r].loan_id \in 1..Len(loans)
            /\ loans[req[r].loan_id].status = "returned"
            /\ loans[req[r].loan_id].returned_date # NoDate
        /\ ReleaseFailed(r) => req[r].n_events = 0

\* C16 as stated: the loan is saved as returned before the release call; when
\* the release call fails the loan stays returned, the caller gets the error,
\* the call is not repeated and the catalog has not written the increment.
C16_ReleaseFailureKeepsReturned ==
    /\ ReturnedBeforeRelease
    /\ \A r \in DOMAIN req : ReleaseFailed(r) => ~req[r].wrote

\* C16, amended: the loan is saved as returned before the release call; when
\* the release call fails the loan stays returned, the caller gets the error
\* and the call is not repeated; the catalog has not written the increment
\* when it refused the call or was not reached, and has written it when only
\* its answer was lost or late (the caller then gets 503).
C16_ReleaseFailureUnlessUnanswered ==
    /\ ReturnedBeforeRelease
    /\ \A r \in DOMAIN req :
        (ReleaseFailed(r) /\ req[r].wrote) => req[r].code = 503

\* the loan of request c is returned, the release of the return t failed
\* without a write, and the book still misses the copy
C16_Witness ==
    \E c, t \in DOMAIN req :
        /\ Succeeded(c, "create", 201, 1)
        /\ ReleaseFailed(t) /\ req[t].loan_id = 1 /\ ~req[t].wrote
        /\ loans[1].status = "returned"
        /\ \A q \in DOMAIN req \ {c, t} : req[q].kind = "none"
        /\ books[req[c].book_id].available_copies
                = books0[req[c].book_id].available_copies - 1

\* C17: available_copies of a book changes only in the step in which a
\* reserve or a release handler commits for that book; no other operation of
\* the catalog (the book update of the monolith's edit form) writes it.
C17_OnlyReserveRelease ==
    [][\A b \in DOMAIN books :
        books'[b].available_copies # books[b].available_copies =>
            \E r \in DOMAIN req :
                /\ req[r].pc \in {"reserve_read", "release_read"}
                /\ req[r].book_id = b
                /\ req'[r] # req[r]]_vars

\* the seq-th message published is ready in the queue q, or held by q's
\* consumer, or q's handler has completed for it
Kept(q, seq) ==
    \/ \E i \in 1..Len(queue[q]) : queue[q][i].seq = seq
    \/ delivery[q].msg.seq = seq
    \/ \E i \in 1..Len(handled[q]) : handled[q][i] = seq

\* C18: a message is acknowledged only after its handler completed; a message
\* whose handler raised stays with the broker and is delivered again, so no
\* message leaves a queue before its handler has completed for it.
C18_NoMessageLost ==
    \A q \in DOMAIN queue : \A seq \in 1..Len(events) : Kept(q, seq)

\* the entries of a sequence in the order of their first occurrence
RECURSIVE Firsts(_)
Firsts(seq) ==
    IF seq = <<>> THEN <<>>
    ELSE LET front == Firsts(SubSeq(seq, 1, Len(seq) - 1))
             last == seq[Len(seq)]
         IN  IF \E i \in 1..Len(front) : front[i] = last
             THEN front
             ELSE Append(front, last)

\* the analytics store after the handler has run once, in this order, for the
\* messages of seqs
RECURSIVE Replayed(_)
Replayed(seqs) ==
    IF seqs = <<>> THEN NoMetrics
    ELSE analytics_handled(Replayed(SubSeq(seqs, 1, Len(seqs) - 1)),
                           events[seqs[Len(seqs)]])

\* the counters of the store: a missing row counts as zeros
AggregateOf(m) == IF m.aggregate = <<>> THEN ZeroAggregate ELSE m.aggregate[1]
UserOf(m, user_id) ==
    IF user_id \in DOMAIN m.users THEN m.users[user_id] ELSE ZeroUser

\* C19: the analytics counters (total_loans, active_loans, total_returns and
\* each user's loans_taken and loans_returned) are what they would be had
\* every message been handled once: handling a message again changes nothing.
C19_AnalyticsIdempotent ==
    AnalyticsQueue \in DOMAIN handled =>
        LET once == Replayed(Firsts(handled[AnalyticsQueue]))
        IN  /\ AggregateOf(metrics) = AggregateOf(once)
            /\ \A u \in Users : UserOf(metrics, u) = UserOf(once, u)

\* C20: the Notification table has one record for every completed run of the
\* handler, in the order of the runs, with the event's user and type: a
\* message handled twice has two records.
C20_OneRecordPerHandled ==
    NotificationQueue \in DOMAIN handled =>
        /\ Len(notifications) = Len(handled[NotificationQueue])
        /\ \A i \in 1..Len(notifications) :
            LET e == events[handled[NotificationQueue][i]]
            IN  /\ notifications[i].id = i
                /\ notifications[i].user_id = e.user_id
                /\ notifications[i].event_type = e.type

\* a message was delivered again after its handler had completed, and has two
\* records
C20_Witness ==
    /\ NotificationQueue \in DOMAIN handled
    /\ \E i, j \in 1..Len(notifications) :
        /\ i < j
        /\ handled[NotificationQueue][i] = handled[NotificationQueue][j]
        /\ notifications[i].user_id = notifications[j].user_id
        /\ notifications[i].event_type = notifications[j].event_type

\* the analytics handler completes for the message its consumer holds
AnalyticsHandles ==
    handled'[AnalyticsQueue] # handled[AnalyticsQueue]

\* 1 when the condition holds, else 0
One(condition) == IF condition THEN 1 ELSE 0

\* the analytics handler has completed for a loan.created and then for a
\* loan.returned of one user, and for nothing else
CreatedThenReturned(u) ==
    /\ Len(handled[AnalyticsQueue]) = 2
    /\ events[handled[AnalyticsQueue][1]].type = "loan.created"
    /\ events[handled[AnalyticsQueue][2]].type = "loan.returned"
    /\ events[handled[AnalyticsQueue][1]].user_id = u
    /\ events[handled[AnalyticsQueue][2]].user_id = u

\* a request of the kind has been answered with 200
Read(r, kind) ==
    /\ req[r].kind = kind
    /\ req[r].pc = "done"
    /\ req[r].code = 200

\* C21: the analytics handler adds 1 to total_loans, active_loans and the
\* user's loans_taken for a loan.created; adds 1 to total_returns and the
\* user's loans_returned and takes 1 from active_loans, not below 0, for a
\* loan.returned; changes no counter for any other type.  After a
\* loan.created and a loan.returned of one user the summary is total_loans 1,
\* total_returns 1 and the user has loans_taken 1, loans_returned 1.
C21_CountersFollowEvents ==
    [][/\ AnalyticsHandles =>
            LET e == delivery[AnalyticsQueue].msg.event
                created == e.type = "loan.created"
                returned == e.type = "loan.returned"
                a == AggregateOf(metrics)
                b == AggregateOf(metrics')
            IN  /\ b.total_loans = a.total_loans + One(created)
                /\ b.total_returns = a.total_returns + One(returned)
                /\ b.active_loans =
                        IF created THEN a.active_loans + 1
                        ELSE IF returned /\ a.active_loans > 0
                        THEN a.active_loans - 1
                        ELSE IF returned THEN 0
                        ELSE a.active_loans
                /\ \A u \in Users :
                    /\ UserOf(metrics', u).loans_taken =
                            UserOf(metrics, u).loans_taken
                                + One(created /\ u = e.user_id)
                    /\ UserOf(metrics', u).loans_returned =
                            UserOf(metrics, u).loans_returned
                                + One(returned /\ u = e.user_id)
       /\ \A u \in Users : CreatedThenReturned(u)' =>
            /\ AggregateOf(metrics').total_loans = 1
            /\ AggregateOf(metrics').total_returns = 1
            /\ UserOf(metrics', u) = [loans_taken |-> 1, loans_returned |-> 1]
       /\ \A r \in DOMAIN req : (req[r].pc # "done" /\ Read(r, "summary")') =>
            req'[r].result = <<AggregateOf(metrics')>>]_vars

\* after a loan.created and a loan.returned of a user were handled, the
\* summary was read with total_loans 1 and total_returns 1, and the user's
\* metrics with loans_taken 1 and loans_returned 1
C21_Witness ==
    \E u \in Users, r, q \in DOMAIN req :
        /\ CreatedThenReturned(u)
        /\ Read(r, "summary")
        /\ req[r].result[1].total_loans = 1
        /\ req[r].result[1].total_returns = 1
        /\ Read(q, "user_metrics")
        /\ req[q].user_id = u
        /\ req[q].result = <<[loans_taken |-> 1, loans_returned |-> 1]>>

\* C22: active_loans is never negative, whatever the events and their order.
C22_ActiveNeverNegative ==
    \A i \in 1..Len(metrics.aggregate) : metrics.aggregate[i].active_loans >= 0

\* a loan.returned was handled with no loan.created before it, and one was
\* handled twice: active_loans is 0
C22_Witness ==
    /\ Len(handled[AnalyticsQueue]) >= 2
    /\ \A i \in 1..Len(handled[AnalyticsQueue]) :
            events[handled[AnalyticsQueue][i]].type = "loan.returned"
    /\ handled[AnalyticsQueue][1] = handled[AnalyticsQueue][2]
    /\ metrics.aggregate[1].active_loans = 0
    /\ metrics.aggregate[1].total_returns >= 2

\* C23: the store has at most one AggregateMetric row, and one as soon as an
\* event was handled or the summary was read; it has a UserMetric row for
\* the user of every handled event, and for no user that no event names.
C23_OneRowEach ==
    /\ Len(metrics.aggregate) <= 1
    /\ (\/ handled[AnalyticsQueue] # <<>>
        \/ \E r \in DOMAIN req : Read(r, "summary"))
            => Len(metrics.aggregate) = 1
    /\ \A i \in 1..Len(handled[AnalyticsQueue]) :
            events[handled[AnalyticsQueue][i]].user_id # NoUser =>
                events[handled[AnalyticsQueue][i]].user_id \in DOMAIN metrics.users
    /\ \A u \in DOMAIN metrics.users :
            \E i \in 1..Len(events) : events[i].user_id = u

\* the summary was read while the consumer made the row (the read's insert
\* was refused) and read again, and events of two users were handled
C23_Witness ==
    /\ \E r \in DOMAIN req : req[r].kind = "summary" /\ req[r].code = 500
    /\ \E r \in DOMAIN req : Read(r, "summary")
    /\ Len(metrics.aggregate) = 1
    /\ DOMAIN metrics.users = Users
    /\ Len(handled[AnalyticsQueue]) >= 2

\* C24: the read of the metrics of a user who has no row answers 200 with
\* loans_taken 0 and loans_returned 0, and leaves the store as it was.
C24_UnknownUserRead ==
    [][\A r \in DOMAIN req :
        (/\ req[r].kind = "none"
         /\ req'[r].kind = "user_metrics"
         /\ req'[r].user_id \notin DOMAIN metrics.users) =>
            /\ req'[r].code = 200
            /\ req'[r].result = <<[loans_taken |-> 0, loans_returned |-> 0]>>
            /\ metrics' = metrics]_vars

\* the metrics of a user without a row were read after an event of another
\* user had been handled; the user still has no row
C24_Witness ==
    \E r \in DOMAIN req :
        /\ Read(r, "user_metrics")
        /\ req[r].user_id \notin DOMAIN metrics.users
        /\ req[r].result = <<ZeroUser>>
        /\ metrics.users # <<>>
        /\ metrics.aggregate[1].total_loans >= 1

\* the text has the part
Has(text, part) == \E k \in 1..Len(text) : text[k] = part

\* the event of the i-th completed run of the notification handler
Told(i) == events[handled[NotificationQueue][i]]

\* C25: the record of a loan.created has the payload's user_name and
\* book_title and the borrowing phrase in its message, the record of a
\* loan.returned has them and the returning phrase, the record of any other
\* type has the default text with the type; event_type is the event's type.
C25_MessageByType ==
    \A i \in 1..Len(notifications) :
        LET e == Told(i)
            text == notifications[i].message
            named == /\ "user_name" \in DOMAIN e => Has(text, e.user_name)
                     /\ "book_title" \in DOMAIN e => Has(text, e.book_title)
        IN  /\ notifications[i].event_type = e.type
            /\ e.type = "loan.created" =>
                    named /\ Has(text, TookBook) /\ ~Has(text, ReturnedBook)
            /\ e.type = "loan.returned" =>
                    named /\ Has(text, ReturnedBook) /\ ~Has(text, TookBook)
            /\ e.type \notin {"loan.created", "loan.returned"} =>
                    text = <<ReceivedEvent, e.type>>

\* a loan.returned with a name and a title and an event of another type have
\* their records
C25_Witness ==
    /\ Len(notifications) = 2
    /\ Told(1).type = "loan.returned"
    /\ "user_name" \in DOMAIN Told(1)
    /\ notifications[1].message = <<Told(1).user_name, ReturnedBook, "Dune">>
    /\ Told(2).type = OtherType
    /\ notifications[2].message = <<ReceivedEvent, OtherType>>

\* a list request is answered
Listed(r) ==
    /\ req[r].kind = "none"
    /\ req'[r].kind = "list"
    /\ req'[r].code = 200

\* C26: a list answers with at most limit records and never more than 200,
\* of the user asked for when one is given, the newest ones, newest first.
C26_ListCapped ==
    [][\A r \in DOMAIN req : Listed(r) =>
        LET rows == req'[r].result
            shown == {rows[k] : k \in 1..Len(rows)}
        IN  /\ Len(rows) <= Max2(req'[r].count, 0)
            /\ Len(rows) <= LIMIT_MAX
            /\ req'[r].user_id # NoUser =>
                    \A k \in 1..Len(rows) :
                        notifications[rows[k]].user_id = req'[r].user_id
            /\ \A j, k \in 1..Len(rows) : j < k =>
                    notifications[rows[j]].created_at
                        >= notifications[rows[k]].created_at
            /\ \A i \in 1..Len(notifications) :
                    (/\ i \notin shown
                     /\ req'[r].user_id \in {NoUser, notifications[i].user_id}) =>
                        \A k \in 1..Len(rows) :
                            notifications[rows[k]].created_at
                                >= notifications[i].created_at]_vars

\* C27: every event published while both queues are bound is handled by the
\* analytics consumer and by the notification consumer, eventually.
C27_EventuallyHandled ==
    \A q \in Queues : \A seq \in 1..MaxEvents :
        [](Len(events) >= seq =>
            <>(\E i \in 1..Len(handled[q]) : handled[q][i] = seq))

\* C28: the overdue sweep and its tasks change no loan: a loan is as it was
\* after every step of the sweep and of a notification task, so an overdue
\* loan stays not returned until mark_as_returned.
C28_SweepChangesNoLoan ==
    [][(sweep' # sweep \/ celery' # celery \/ outbox' # outbox) =>
            Loan_objects' = Loan_objects]_vars

\* a sweep has ended, the mail of an overdue loan it selected was sent, and
\* the loan is still not returned
C28_Witness ==
    /\ sweep.pc = "done"
    /\ \E id \in sweep.selected :
        /\ \E k \in 1..Len(outbox) : outbox[k] = id
        /\ Loan_objects[id].due_date < sweep.now
        /\ ~Loan_objects[id].is_returned
        /\ Loan_objects[id].returned_date = NoDate

\* the number of times the sweep has called delay for the loan
Delays(run, id) == Cardinality({k \in 1..Len(run.sent) : run.sent[k] = id})

\* C29: a sweep selects the loans with due_date < now that are not returned,
\* and when it stops it has called the notification once for each of them
\* and for no other loan.
C29_ExactlyTheOverdue ==
    [][/\ (sweep.pc # "loop" /\ sweep'.pc = "loop") =>
            sweep'.selected =
                {id \in 1..Len(Loan_objects) :
                    /\ Loan_objects[id].due_date < sweep'.now
                    /\ ~Loan_objects[id].is_returned}
       /\ (sweep.pc = "loop" /\ sweep'.pc # "loop") =>
            \A id \in 1..Len(Loan_objects) :
                Delays(sweep', id) = One(id \in sweep'.selected)]_vars

\* C30: a failure while a loan is notified does not stop the sweep: a sweep
\* stops only when it has no selected loan left to notify.
C30_FailureDoesNotHalt ==
    sweep.pc # "loop" => sweep.rest = <<>>

\* C33: every Loan row has due_date = loan_date + LOAN_PERIOD_DAYS.
C33_DueIsLoanPlusPeriod ==
    \A i \in 1..Len(loans) :
        loans[i].due_date = loans[i].loan_date + LOAN_PERIOD_DAYS

\* no create-loan or return-loan request is in flight
Quiet == \A r \in DOMAIN req : req[r].pc \in {"idle", "done"}

\* the active loans of the book
ActiveOf(b) ==
    {i \in 1..Len(loans) : loans[i].book_id = b /\ loans[i].status = "active"}

\* C34: when every book started with available_copies = total_copies, then
\* with no request in flight, available_copies plus the number of active
\* loans of a book is its total_copies.
C34_CopiesConserved ==
    (/\ \A b \in DOMAIN books0 :
            books0[b].available_copies = books0[b].total_copies
     /\ Quiet) =>
        \A b \in DOMAIN books :
            books[b].available_copies + Cardinality(ActiveOf(b))
                = books[b].total_copies

\* C35: the loan.returned event of a loan is published after the
\* loan.created event of that loan.
C35_CreatedBeforeReturned ==
    \A i \in EventsOf("loan.returned") :
        \E j \in EventsOf("loan.created") :
            j < i /\ events[j].loan_id = events[i].loan_id

\* the return-loan requests the owner of the loan has made for it
OwnerReturns(l) ==
    {r \in DOMAIN req :
        /\ req[r].kind = "return"
        /\ req[r].loan_id = l
        /\ req[r].code # 404
        /\ req[r].user_id = loans[l].user_id}

\* the request was refused because the loan is returned
RefusedReturned(r) ==
    req[r].code = 400 /\ req[r].detail = "Loan already returned"

\* the sum of f over the set
RECURSIVE Sum(_, _)
Sum(f, S) ==
    IF S = {} THEN 0
    ELSE LET x == CHOOSE y \in S : TRUE
         IN  f[x] + Sum(f, S \ {x})

\* C36: of the return-loan requests the owner makes for one loan, exactly
\* one is not refused with "Loan already returned"; release is called once,
\* by that request, at most one loan.returned event of the loan is published,
\* and it is published when that request has answered 200.
C36_OneReturnWins ==
    \A l \in 1..Len(loans) :
        LET made == OwnerReturns(l)
            won == {r \in made : ~RefusedReturned(r)}
        IN  made # {} =>
                /\ Cardinality(won) = 1
                /\ Sum([r \in made |-> req[r].n_release], made) = 1
                /\ \A r \in won : req[r].n_release = 1
                /\ Cardinality({r \in made : req[r].code = 200}) <= 1
                /\ Cardinality(EventsFor("loan.returned", l))
                        = Cardinality({r \in made : req[r].code = 200})
                /\ \A r \in won :
                        (req[r].pc = "done" /\ req[r].code \notin {500, 503}
                            /\ req[r].detail = "") => req[r].code = 200

\* a second return of the owner was refused while the first was waiting for
\* the catalog's answer to its release call
C36_Witness ==
    \E l \in 1..Len(loans), r, q \in DOMAIN req :
        /\ r \in OwnerReturns(l)
        /\ q \in OwnerReturns(l)
        /\ req[r].pc \in {"release_sent", "release_read"}
        /\ RefusedReturned(q)

\* C37: a create-loan request that has answered has left a Loan row exactly
\* when a loan.created event of that loan was published.
C37_LoanIffEvent ==
    \A r \in DOMAIN req :
        (req[r].kind = "create" /\ req[r].pc = "done") =>
            (req[r].loan_id # 0
                <=> EventsFor("loan.created", req[r].loan_id) # {})

\* C40: a loan is returned exactly when its returned_date is set; an active
\* loan has none.
C40_ReturnedIffDated ==
    \A i \in 1..Len(loans) :
        /\ loans[i].status \in {"active", "returned"}
        /\ loans[i].status = "returned" <=> loans[i].returned_date # NoDate

\* one loan is returned, with the date of its return, and another is active
C40_Witness ==
    \E i, j \in 1..Len(loans) :
        /\ loans[i].status = "returned"
        /\ loans[i].returned_date >= loans[i].loan_date
        /\ loans[j].status = "active"
        /\ loans[j].returned_date = NoDate

\* the runs of the analytics handler that completed, as the events they handled
HandledEvents ==
    [k \in 1..Len(handled[AnalyticsQueue]) |-> events[handled[AnalyticsQueue][k]]]

\* the number of the first n completed runs that handled an event of the type
OfType(event_type, n) ==
    Cardinality({k \in 1..n : HandledEvents[k].type = event_type})

\* every completed run for a loan.returned came when more loan.created than
\* loan.returned had been handled before it: none ran with active_loans at 0
ReturnsFollowLoans ==
    \A k \in 1..Len(HandledEvents) :
        HandledEvents[k].type = "loan.returned" =>
            OfType("loan.created", k - 1) > OfType("loan.returned", k - 1)

\* C38: active_loans >= total_loans - total_returns in every state, and the
\* two are equal when no loan.returned was handled while active_loans was 0.
C38_ActiveIsLoansLessReturns ==
    LET a == AggregateOf(metrics)
    IN  /\ a.active_loans >= a.total_loans - a.total_returns
        /\ ReturnsFollowLoans => a.active_loans = a.total_loans - a.total_returns

\* a loan and its return have been handled, and the aggregate is back at no
\* active loan
C38_Witness ==
    /\ ReturnsFollowLoans
    /\ AggregateOf(metrics).total_returns >= 1
    /\ AggregateOf(metrics).active_loans = 0

\* the sum of a counter over the UserMetric rows
OverUsers(field) ==
    Sum([u \in DOMAIN metrics.users |-> metrics.users[u][field]], DOMAIN metrics.users)

\* C39: when every handled event carries a user_id, the loans_taken of all
\* UserMetric rows add up to total_loans and their loans_returned to
\* total_returns, in every committed state, also after a handler that failed
\* between its commits.
C39_UserSumsAreTotals ==
    (\A k \in 1..Len(HandledEvents) : HandledEvents[k].user_id # NoUser) =>
        /\ OverUsers("loans_taken") = AggregateOf(metrics).total_loans
        /\ OverUsers("loans_returned") = AggregateOf(metrics).total_returns

\* a handler failed after it had made the row of a user, and a loan or a
\* return of another user was handled
C39_Witness ==
    /\ \A k \in 1..Len(HandledEvents) : HandledEvents[k].user_id # NoUser
    /\ \E u \in DOMAIN metrics.users :
        /\ metrics.users[u] = ZeroUser
        /\ \A k \in 1..Len(HandledEvents) : HandledEvents[k].user_id # u
    /\ OverUsers("loans_taken") + OverUsers("loans_returned") >= 1

\* the handler of the consumer of q starts for a message
Starts(q) ==
    delivery'[q].stage = "handling" /\ delivery'[q] # delivery[q]

\* C31: a consumer handles the messages of its queue one at a time and in the
\* order of delivery: its handler starts only when the consumer holds no
\* message (the handler of the previous one has finished), for the message at
\* the head of its queue, and the handler that completes is the one of the
\* message held; the completed runs of a consumer follow the order of the
\* messages.
C31_OneAtATime ==
    [][\A q \in DOMAIN delivery :
        /\ Starts(q) =>
                /\ delivery[q].stage = "waiting"
                /\ queue[q] # <<>>
                /\ delivery'[q].msg.seq = Head(queue[q]).seq
        /\ handled'[q] # handled[q] =>
                /\ delivery[q].stage = "handling"
                /\ handled'[q] = Append(handled[q], delivery[q].msg.seq)
                /\ \A i \in 1..Len(handled[q]) : handled[q][i] <= delivery[q].msg.seq]_vars

\* a message waits in the queue while the consumer's handler runs for the one
\* before it
C31_Witness ==
    \E q \in DOMAIN delivery :
        /\ delivery[q].stage = "handling"
        /\ queue[q] # <<>>
        /\ Head(queue[q]).seq > delivery[q].msg.seq

\* C32: a consumer loop never stops for good: whenever consume_events has
\* raised, the consumer is subscribed again later.
C32_SubscribedAgain ==
    \A q \in Queues :
        (delivery[q].stage = "sleeping") ~> (delivery[q].stage = "waiting")

\* a consumer whose handler raised for the first message has subscribed again
\* and handled the second
C32_Witness ==
    \E q \in Queues :
        /\ Len(events) >= 2
        /\ handled[q] = <<2>>
        /\ queue[q] = <<>>
        /\ delivery[q].stage = "waiting"

====
